---------------------------- MODULE Spec2Model ----------------------------
(***************************************************************************)
(* MLX90642 support of the mlx9064x driver:                                *)
(*   - Mlx90642Calibration::from_data / from_i2c   (mlx90642/eeprom.rs)    *)
(*   - Mlx90642 as MelexisCamera, pixels_in_subpage (mlx90642/mod.rs)      *)
(*   - the terminal-temperatures example            (examples/)            *)
(*                                                                         *)
(* Three state machines share the variables below; each specification     *)
(* (Spec, SpecPixels, SpecCli) moves its own variables and leaves the      *)
(* others at their initial values.                                         *)
(*                                                                         *)
(* The MLX90641 pieces the MLX90642 code calls (hamming::add_checksum, the *)
(* word checksum decode, Mlx90641Calibration::from_data and                *)
(* Mlx90641::pixels_in_subpage) are not part of the sources at hand; they  *)
(* are modelled from the written specification (sections 4.1 to 4.3).      *)
(***************************************************************************)
EXTENDS Integers, Sequences, FiniteSets, TLC

VARIABLES
    \* ---- EEPROM decoding (eeprom.rs) ----
    orig,        \* the image as first laid out, every word carrying its checksum
    data,        \* the byte buffer handed to from_data / held by the device
    corruption,  \* "none" | "one" | "two": bits flipped in data so far
    flipped,     \* the word (1-based) the flips went to, 0 if none
    stripped,    \* TRUE once the check bits of every word were cleared
    op,          \* "none" | "from_data" | "from_i2c": the call that was made
    result,      \* what the call returned
    trace,       \* what the call did: decoder runs, synthesis runs, words read
    bus,         \* the bus: write_read operations seen and the last one's outcome
    \* ---- pixel membership (mod.rs) ----
    member641,   \* the boolean Mlx90641::pixels_in_subpage repeats, per argument
    pattern,     \* access pattern of the query in progress, "none" before one
    cursor,      \* subpage whose iterator is being drained, "done" after both
    iter,        \* the iterator being drained: its item and the items left
    seen,        \* per subpage, the booleans collected from its iterator
    \* ---- terminal-temperatures example ----
    pc,          \* position in main
    args,        \* the command line as main sees it
    polls,       \* per wait_for_frame call, the generator calls made
    ended,       \* per wait_for_frame call, the last generator outcome
    printed,     \* TRUE once print_temperatures ran
    exit         \* "running" | "ok" | "err": main's result

eepromVars == <<orig, data, corruption, flipped, stripped, op, result, trace, bus>>
pixelVars  == <<member641, pattern, cursor, iter, seen>>
cliVars    == <<pc, args, polls, ended, printed, exit>>
vars       == <<eepromVars, pixelVars, cliVars>>

---------------------------------------------------------------------------
(* Bounds of the model *)

\* number of words at the start of the image whose content varies; every
\* word after them is 0x0000 (a valid codeword of payload 0)
LiveWords == 2

\* how many entries of SamplePayloads images are built from
NumSamples == 4

\* cap on the generator calls one wait_for_frame makes
MaxPolls == 3

\* 1: payload one bit away from payload 0, whose codeword is 0x0000
\* 3: payload with two check bits set     7: payload with one check bit set
\* 54: payload whose check bits are all 0  1365: alternating bits
SamplePayloads == <<1, 3, 7, 54, 1365>>

Payloads == {SamplePayloads[i] : i \in 1..NumSamples}

---------------------------------------------------------------------------
(* Constants of eeprom.rs *)

EEPROM_LENGTH == (10048 - 9216) * 2      \* (0x2740 - 0x2400) * 2

EEPROM_BASE == 9216                      \* Address::new(0x2400)

HAMMING_DATA_MASK == 2047                \* 0x07FF

EEPROM_WORDS == EEPROM_LENGTH \div 2

---------------------------------------------------------------------------
(* 16-bit words and bytes *)

Bit(w, i) == (w \div (2 ^ i)) % 2

FlipBitOf(w, i) == IF Bit(w, i) = 1 THEN w - 2 ^ i ELSE w + 2 ^ i

\* raw_word & HAMMING_DATA_MASK
MaskData(w) == w % (HAMMING_DATA_MASK + 1)

\* u16::from_be_bytes([hi, lo])
from_be_bytes(hi, lo) == hi * 256 + lo

\* u16::to_be_bytes
to_be_bytes(w) == <<w \div 256, w % 256>>

\* A buffer is its length and its leading bytes; bytes past head are 0.
ByteAt(d, k) == IF k <= Len(d.head) THEN d.head[k] ELSE 0

\* the i-th (1-based) big-endian word of a buffer: data.chunks_exact(2)
WordAt(d, i) == from_be_bytes(ByteAt(d, 2 * i - 1), ByteAt(d, 2 * i))

LiveOf(d) == Len(d.head) \div 2

\* the big-endian bytes of a sequence of words
BytesOf(ws) ==
    [k \in 1..(2 * Len(ws)) |-> to_be_bytes(ws[(k + 1) \div 2])[2 - (k % 2)]]

Buffer(n, ws) == [len |-> n, head |-> BytesOf(ws)]

---------------------------------------------------------------------------
(* Results *)

\* kind: "Ok" or the error's variant; at: the word a checksum error names;
\* cause: the error an outer error carries; type: the type of an Ok value;
\* val: the decoded payloads a calibration is built from
Ok(t, v) ==
    [ok |-> TRUE, kind |-> "Ok", at |-> 0, cause |-> "", type |-> t, val |-> v]

Err(k, a) ==
    [ok |-> FALSE, kind |-> k, at |-> a, cause |-> "", type |-> "", val |-> <<>>]

NoResult == Err("none", 0)

---------------------------------------------------------------------------
(* ChecksumCode of the MLX90641 (specification 4.1): 11 payload bits in    *)
(* bits 0..10, four Hamming parity bits in bits 11..14, overall parity in  *)
(* bit 15.                                                                 *)

ParityCover ==
    << {0, 1, 3, 4, 6, 8, 10},
       {0, 2, 3, 5, 6, 9, 10},
       {1, 2, 3, 7, 8, 9, 10},
       {4, 5, 6, 7, 8, 9, 10} >>

XorOf(w, S) == Cardinality({i \in S : Bit(w, i) = 1}) % 2

HammingBits(d) ==
    XorOf(d, ParityCover[1]) + 2 * XorOf(d, ParityCover[2])
        + 4 * XorOf(d, ParityCover[3]) + 8 * XorOf(d, ParityCover[4])

\* the overall parity of bits 0..14 goes to bit 15
WithOverallParity(x) == x + 32768 * XorOf(x, 0..14)

\* encode: the payload with its five check bits
add_checksum(d) ==
    IF d > HAMMING_DATA_MASK
    THEN Err("InvalidData", 0)
    ELSE Ok("u16", WithOverallParity(d + 2048 * HammingBits(d)))

\* syndrome column of bit position i of a codeword
Column(i) ==
    IF i >= 11 THEN 2 ^ (i - 11)
    ELSE (IF i \in ParityCover[1] THEN 1 ELSE 0)
         + (IF i \in ParityCover[2] THEN 2 ELSE 0)
         + (IF i \in ParityCover[3] THEN 4 ELSE 0)
         + (IF i \in ParityCover[4] THEN 8 ELSE 0)

\* the stored Hamming bits against the recomputed ones
SyndromeOf(stored, fresh) ==
    (IF Bit(stored, 0) # Bit(fresh, 0) THEN 1 ELSE 0)
        + (IF Bit(stored, 1) # Bit(fresh, 1) THEN 2 ELSE 0)
        + (IF Bit(stored, 2) # Bit(fresh, 2) THEN 4 ELSE 0)
        + (IF Bit(stored, 3) # Bit(fresh, 3) THEN 8 ELSE 0)

Syndrome(w) == SyndromeOf((w \div 2048) % 16, HammingBits(MaskData(w)))

\* the bit a single-bit syndrome names (syndrome 0: the overall parity bit)
ErrorPosition(s) == IF s = 0 THEN 15 ELSE CHOOSE i \in 0..14 : Column(i) = s

\* s: the syndrome of w; odd: whether the overall parity of w is off
Corrected(w, at, s, odd) ==
    IF s = 0 /\ ~odd THEN Ok("u16", MaskData(w))
    ELSE IF odd THEN Ok("u16", MaskData(FlipBitOf(w, ErrorPosition(s))))
    ELSE Err("Checksum", at)

\* decode: zero syndrome returns the payload; a single-bit syndrome flips
\* that bit; anything else fails, naming the word
validate_checksum(w, at) == Corrected(w, at, Syndrome(w), XorOf(w, 0..15) = 1)

---------------------------------------------------------------------------
(* CalibrationDecoder of the MLX90641 (specification 4.2): the length is   *)
(* checked, every word is checksum-decoded, the first failing word aborts  *)
(* the decode, the decoded fields are range-checked (the corner            *)
(* temperatures must strictly increase), and the calibration is built      *)
(* from the decoded payloads.  The live words are the corner temperatures; *)
(* the payloads of the words after them are all 0.                         *)

BandsIncrease(p) == \A i \in 1..(Len(p) - 1) : p[i] < p[i + 1]

\* the least element of a non-empty set of word indices
First(S) == CHOOSE i \in S : \A j \in S : i <= j

DecodeWords(d) == [i \in 1..LiveOf(d) |-> validate_checksum(WordAt(d, i), i)]

\* res: what the decoder returns; words: the words it handed to the
\* checksum decode before returning
BuildCalibration(payloads) ==
    IF ~BandsIncrease(payloads)
    THEN [res |-> Err("Configuration", 0), words |-> EEPROM_WORDS]
    ELSE [res |-> Ok("Mlx90641Calibration", payloads), words |-> EEPROM_WORDS]

AbortOrBuild(dec, failing) ==
    IF failing # {}
    THEN [res |-> Err("Checksum", First(failing)), words |-> First(failing)]
    ELSE BuildCalibration([i \in DOMAIN dec |-> dec[i].val])

DecodeAll(dec) == AbortOrBuild(dec, {i \in DOMAIN dec : ~dec[i].ok})

Mlx90641Calibration_from_data(d) ==
    IF d.len # EEPROM_LENGTH
    THEN [res |-> Err("InvalidData", 0), words |-> 0]
    ELSE DecodeAll(DecodeWords(d))

---------------------------------------------------------------------------
(* Mlx90642Calibration (eeprom.rs) *)

\* what a call did besides returning
NoTrace ==
    [primaryRuns |-> 0, synthRuns |-> 0, wordsDecoded |-> 0,
     wordsEncoded |-> 0, first |-> NoResult, second |-> NoResult]

\* .map(Self): the newtype wrapper Mlx90642Calibration(Mlx90641Calibration)
MapSelf(r) == IF r.ok THEN Ok("Mlx90642Calibration", r.val) ELSE r

\* eeprom.rs 70-79: the loop's outcome; the ? returns the first error
Collected(enc, bad) ==
    IF bad # {} THEN enc[First(bad)]
    ELSE Ok("bytes", Buffer(EEPROM_LENGTH, [i \in DOMAIN enc |-> enc[i].val]))

CollectWords(enc) == Collected(enc, {i \in DOMAIN enc : ~enc[i].ok})

\* eeprom.rs 62-80: every word masked to its payload and re-encoded
synthesize_checksums(d) ==
    IF d.len # EEPROM_LENGTH
    THEN Err("InvalidData", 0)
    ELSE CollectWords(
             [i \in 1..LiveOf(d) |-> add_checksum(MaskData(WordAt(d, i)))])

\* the trace after the first run of the MLX90641 decoder
FirstRun(run1) ==
    [NoTrace EXCEPT !.primaryRuns = 1, !.first = run1.res,
                    !.wordsDecoded = run1.words]

\* the trace after synthesize_checksums
Synthesized(t) == [t EXCEPT !.synthRuns = 1, !.wordsEncoded = EEPROM_WORDS]

\* eeprom.rs 56: the second run's result is the result
SecondRun(t, run2) ==
    [res |-> run2.res,
     trace |-> [t EXCEPT !.primaryRuns = 2, !.second = run2.res,
                         !.wordsDecoded = @ + run2.words]]

\* Retry, were a failed second run answered by synthesizing and decoding
\* once more
RetryAgain(t, corrected) ==
    IF ~corrected.ok
    THEN [res |-> corrected, trace |-> t]
    ELSE IF Mlx90641Calibration_from_data(corrected.val).res.ok
    THEN SecondRun(t, Mlx90641Calibration_from_data(corrected.val))
    ELSE [res |-> Mlx90641Calibration_from_data(corrected.val).res,
          trace |-> [t EXCEPT !.primaryRuns = 3, !.synthRuns = 2]]

\* eeprom.rs 55-56
Retry(t, corrected) ==
    IF ~corrected.ok
    THEN [res |-> corrected, trace |-> t]
    ELSE SecondRun(t, Mlx90641Calibration_from_data(corrected.val))

\* eeprom.rs 52-59: the match on the first run's result
MatchFirst(d, run1) ==
    IF run1.res.ok THEN [res |-> run1.res, trace |-> FirstRun(run1)]
    ELSE IF run1.res.kind = "Checksum"
    THEN Retry(Synthesized(FirstRun(run1)), synthesize_checksums(d))
    ELSE [res |-> run1.res, trace |-> FirstRun(run1)]

\* parse_mlx90641_calibration, were the fallback taken on every error kind
parse_falling_back_on_any_error(d) ==
    IF Mlx90641Calibration_from_data(d).res.ok
    THEN MatchFirst(d, Mlx90641Calibration_from_data(d))
    ELSE Retry(Synthesized(FirstRun(Mlx90641Calibration_from_data(d))),
               synthesize_checksums(d))

\* eeprom.rs 49-60
parse_mlx90641_calibration(d) ==
    MatchFirst(d, Mlx90641Calibration_from_data(d))

Wrapped(r) == [res |-> MapSelf(r.res), trace |-> r.trace]

\* from_data, were the length left to the decoder to check
from_data_unchecked(d) == Wrapped(parse_mlx90641_calibration(d))

\* from_data, were the checksums synthesized without a first attempt
from_data_always_synthesizing(d) ==
    IF d.len # EEPROM_LENGTH
    THEN [res |-> Err("InvalidData", 0), trace |-> NoTrace]
    ELSE Wrapped(Retry(Synthesized(NoTrace), synthesize_checksums(d)))

\* eeprom.rs 39-47
from_data(d) ==
    IF d.len # EEPROM_LENGTH
    THEN [res |-> Err("InvalidData", 0), trace |-> NoTrace]
    ELSE Wrapped(parse_mlx90641_calibration(d))

\* Error::from(LibraryError)
ErrorFrom(e) == [e EXCEPT !.kind = "LibraryError", !.cause = e.kind]

\* Error::I2cWriteReadError(bus error)
I2cWriteReadError(e) == [Err("I2cWriteReadError", 0) EXCEPT !.cause = e]

BusErrors == {"Nack"}

IdleBus == [ops |-> 0, outcome |-> "none", reg |-> <<>>, count |-> 0]

\* one bus.write_read(i2c_address, register, buffer)
WriteRead(b, reg, n, outcome) ==
    [ops |-> b.ops + 1, outcome |-> outcome, reg |-> reg, count |-> n]

\* eeprom.rs 95: .map_err(Error::from)
Surfaced(r, b) ==
    [res |-> IF r.res.ok THEN r.res ELSE ErrorFrom(r.res),
     trace |-> r.trace, bus |-> b]

\* eeprom.rs 93-95: b is the bus after the write_read
AfterRead(b, dev) ==
    IF b.outcome # "ok"
    THEN [res |-> I2cWriteReadError(b.outcome), trace |-> NoTrace, bus |-> b]
    ELSE Surfaced(from_data([len |-> EEPROM_LENGTH, head |-> dev.head]), b)

\* from_i2c, were a failed write_read tried a second time
from_i2c_retrying(b, dev, outcome) ==
    IF outcome = "ok"
    THEN AfterRead(WriteRead(b, to_be_bytes(EEPROM_BASE), EEPROM_LENGTH, outcome), dev)
    ELSE AfterRead(WriteRead(
             WriteRead(b, to_be_bytes(EEPROM_BASE), EEPROM_LENGTH, outcome),
             to_be_bytes(EEPROM_BASE), EEPROM_LENGTH, outcome), dev)

\* eeprom.rs 91-96; dev is the device's memory from EEPROM_BASE on, outcome
\* what the bus makes of the one write_read
from_i2c(b, dev, outcome) ==
    AfterRead(WriteRead(b, to_be_bytes(EEPROM_BASE), EEPROM_LENGTH, outcome), dev)

---------------------------------------------------------------------------
(* The EEPROM state machine: an image is laid out, possibly damaged, and   *)
(* decoded once.                                                           *)

Encoded(ps) == [i \in 1..Len(ps) |-> add_checksum(ps[i]).val]

Images == {Buffer(EEPROM_LENGTH, Encoded(ps)) : ps \in [1..LiveWords -> Payloads]}

OtherLengths == {0, 4, EEPROM_LENGTH - 2, EEPROM_LENGTH + 2}

IdlePixels ==
    /\ member641 = [q \in {} |-> FALSE]
    /\ pattern = "none"
    /\ cursor = "none"
    /\ iter = [item |-> FALSE, left |-> 0]
    /\ seen = <<>>

IdleCli ==
    /\ pc = "idle"
    /\ args = <<>>
    /\ polls = <<>>
    /\ ended = <<>>
    /\ printed = FALSE
    /\ exit = "running"

IdleEeprom ==
    /\ orig = [len |-> 0, head |-> <<>>]
    /\ data = [len |-> 0, head |-> <<>>]
    /\ corruption = "none"
    /\ flipped = 0
    /\ stripped = FALSE
    /\ op = "none"
    /\ result = NoResult
    /\ trace = NoTrace
    /\ bus = IdleBus

Init ==
    /\ orig \in Images
    /\ data = orig
    /\ corruption = "none"
    /\ flipped = 0
    /\ stripped = FALSE
    /\ op = "none"
    /\ result = NoResult
    /\ trace = NoTrace
    /\ bus = IdleBus
    /\ IdlePixels
    /\ IdleCli

SetWord(d, w, v) ==
    [d EXCEPT !.head = [k \in 1..Len(d.head) |->
        IF k = 2 * w - 1 THEN to_be_bytes(v)[1]
        ELSE IF k = 2 * w THEN to_be_bytes(v)[2]
        ELSE d.head[k]]]

\* one bit of one word is flipped; a second flip goes to another bit of
\* the same word
FlipBit(w, b) ==
    /\ op = "none" /\ ~stripped /\ data.len = EEPROM_LENGTH
    /\ corruption \in {"none", "one"}
    /\ flipped \in {0, w}
    /\ Bit(WordAt(data, w), b) = Bit(WordAt(orig, w), b)
    /\ data' = SetWord(data, w, FlipBitOf(WordAt(data, w), b))
    /\ corruption' = IF corruption = "none" THEN "one" ELSE "two"
    /\ flipped' = w
    /\ UNCHANGED <<orig, stripped, op, result, trace, bus, pixelVars, cliVars>>

\* the check bits of every word are cleared (eeprom.rs 265-270)
StripChecksums ==
    /\ op = "none" /\ ~stripped /\ data.len = EEPROM_LENGTH
    /\ corruption = "none"
    /\ data' = Buffer(EEPROM_LENGTH,
                      [i \in 1..LiveOf(data) |-> MaskData(WordAt(data, i))])
    /\ stripped' = TRUE
    /\ UNCHANGED <<orig, corruption, flipped, op, result, trace, bus,
                   pixelVars, cliVars>>

\* the buffer is cut or extended to another length
SetLength(n) ==
    /\ op = "none" /\ ~stripped /\ data.len = EEPROM_LENGTH
    /\ corruption = "none"
    /\ data' = [len |-> n,
                head |-> SubSeq(data.head, 1,
                                IF n < Len(data.head) THEN n ELSE Len(data.head))]
    /\ UNCHANGED <<orig, corruption, flipped, stripped, op, result, trace, bus,
                   pixelVars, cliVars>>

Returned(r) == result' = r.res /\ trace' = r.trace

ReturnedOverBus(r) == result' = r.res /\ trace' = r.trace /\ bus' = r.bus

CallFromData ==
    /\ op = "none"
    /\ op' = "from_data"
    /\ Returned(from_data(data))
    /\ UNCHANGED <<orig, data, corruption, flipped, stripped, bus,
                   pixelVars, cliVars>>

CallFromI2c(outcome) ==
    /\ op = "none" /\ data.len = EEPROM_LENGTH
    /\ op' = "from_i2c"
    /\ ReturnedOverBus(from_i2c(bus, data, outcome))
    /\ UNCHANGED <<orig, data, corruption, flipped, stripped,
                   pixelVars, cliVars>>

Next ==
    \/ \E w \in 1..LiveWords, b \in 0..15 : FlipBit(w, b)
    \/ StripChecksums
    \/ \E n \in OtherLengths : SetLength(n)
    \/ CallFromData
    \/ \E outcome \in {"ok"} \cup BusErrors : CallFromI2c(outcome)

Spec == Init /\ [][Next]_vars

---------------------------------------------------------------------------
(* Mlx90642 as MelexisCamera (mod.rs).  Every member delegates to          *)
(* Mlx90641.  PixelsInSubpageIterator is iter::Take<iter::Repeat<bool>>:   *)
(* one boolean, repeated, cut after a count.  Which boolean Mlx90641       *)
(* repeats for a subpage and an access pattern is decided outside these    *)
(* sources, so member641 ranges over every possibility; the count is the   *)
(* sequence length the specification gives, HEIGHT * WIDTH.                *)

Subpages == {"Zero", "One"}

AccessPatterns == {"Chess", "Interleave"}

\* the MLX90641 array: 12 rows of 16 pixels
HEIGHT == 12

WIDTH == 16

NUM_PIXELS == HEIGHT * WIDTH

\* iter::repeat(item).take(n)
TakeRepeat(item, n) == [item |-> item, left |-> n]

\* an iterator whose items alternate, as a checkerboard would need
AlternatingItem(it) == IF it.left % 2 = 0 THEN it.item ELSE ~it.item

\* what next() yields while items are left
TakeRepeatItem(it) == it.item

Mlx90641_pixels_in_subpage(subpage, access_pattern) ==
    TakeRepeat(member641[<<subpage, access_pattern>>], NUM_PIXELS)

\* mod.rs 32-37
pixels_in_subpage(subpage, access_pattern) ==
    Mlx90641_pixels_in_subpage(subpage, access_pattern)

InitPixels ==
    /\ member641 \in [Subpages \X AccessPatterns -> BOOLEAN]
    /\ pattern = "none"
    /\ cursor = "none"
    /\ iter = TakeRepeat(FALSE, 0)
    /\ seen = [s \in Subpages |-> <<>>]
    /\ IdleEeprom
    /\ IdleCli

\* a caller asks for the membership of both subpages under one pattern
Query(ap) ==
    /\ pattern = "none"
    /\ pattern' = ap
    /\ cursor' = "Zero"
    /\ iter' = pixels_in_subpage("Zero", ap)
    /\ UNCHANGED <<member641, seen, eepromVars, cliVars>>

\* next() returns Some(item)
NextItem ==
    /\ cursor \in Subpages
    /\ iter.left > 0
    /\ seen' = [seen EXCEPT ![cursor] = Append(@, TakeRepeatItem(iter))]
    /\ iter' = [iter EXCEPT !.left = @ - 1]
    /\ UNCHANGED <<member641, pattern, cursor, eepromVars, cliVars>>

\* next() returns None: on to the other subpage, or done
Exhausted ==
    /\ cursor \in Subpages
    /\ iter.left = 0
    /\ IF cursor = "Zero"
       THEN cursor' = "One" /\ iter' = pixels_in_subpage("One", pattern)
       ELSE cursor' = "done" /\ iter' = iter
    /\ UNCHANGED <<member641, pattern, seen, eepromVars, cliVars>>

NextPixels ==
    \/ \E ap \in AccessPatterns : Query(ap)
    \/ NextItem
    \/ Exhausted

SpecPixels == InitPixels /\ [][NextPixels]_vars

---------------------------------------------------------------------------
(* examples/terminal-temperatures.rs *)

Variants == {"640", "641", "642"}

PollOutcomes == {"true", "false", "error"}

WaitAt(k) == IF k = 1 THEN "wait1" ELSE "wait2"

SleepAt(k) == IF k = 1 THEN "sleep1" ELSE "sleep2"

\* where main goes once the k-th wait_for_frame returned Ok
AfterWait(k) == IF k = 1 THEN "wait2" ELSE "print"

\* wait_for_frame, were the generator asked once (an if for the while)
wait_for_frame_once(k, outcome) ==
    IF outcome = "error" THEN "done" ELSE AfterWait(k)

\* terminal-temperatures.rs 112-120: where control is after one generator
\* call of the k-th wait_for_frame
wait_for_frame(k, outcome) ==
    IF outcome = "error" THEN "done"
    ELSE IF outcome = "true" THEN AfterWait(k)
    ELSE SleepAt(k)

InitCli ==
    /\ pc = "start"
    /\ args \in [n : {3, 4}, variant : Variants \cup {"other"},
                 address : {"hex", "decimal", "malformed"}]
    /\ polls = <<0, 0>>
    /\ ended = <<"none", "none">>
    /\ printed = FALSE
    /\ exit = "running"
    /\ IdleEeprom
    /\ IdlePixels

Fail ==
    /\ pc' = "done"
    /\ exit' = "err"
    /\ UNCHANGED <<args, polls, ended, printed>>

\* lines 11-16
CheckArgs ==
    /\ pc = "start"
    /\ IF args.n # 4 THEN Fail
       ELSE pc' = "address" /\ UNCHANGED <<args, polls, ended, printed, exit>>
    /\ UNCHANGED <<eepromVars, pixelVars>>

\* lines 17-22
ParseAddress ==
    /\ pc = "address"
    /\ IF args.address = "malformed" THEN Fail
       ELSE pc' = "bus" /\ UNCHANGED <<args, polls, ended, printed, exit>>
    /\ UNCHANGED <<eepromVars, pixelVars>>

\* lines 23-24
OpenBus(opened) ==
    /\ pc = "bus"
    /\ IF ~opened THEN Fail
       ELSE pc' = "match" /\ UNCHANGED <<args, polls, ended, printed, exit>>
    /\ UNCHANGED <<eepromVars, pixelVars>>

\* lines 25-27, 48-49, 70-71, 92-96: the arm is chosen and the driver built
NewDriver(built) ==
    /\ pc = "match"
    /\ IF args.variant \notin Variants \/ ~built THEN Fail
       ELSE pc' = WaitAt(1) /\ UNCHANGED <<args, polls, ended, printed, exit>>
    /\ UNCHANGED <<eepromVars, pixelVars>>

\* one generate_image_if_ready call of the k-th wait_for_frame
Poll(k, outcome) ==
    /\ pc = WaitAt(k)
    /\ outcome = "false" => polls[k] < MaxPolls - 1
    /\ polls' = [polls EXCEPT ![k] = @ + 1]
    /\ ended' = [ended EXCEPT ![k] = outcome]
    /\ pc' = wait_for_frame(k, outcome)
    /\ exit' = IF pc' = "done" THEN "err" ELSE exit
    /\ UNCHANGED <<args, printed, eepromVars, pixelVars>>

\* line 117
Sleep(k) ==
    /\ pc = SleepAt(k)
    /\ pc' = WaitAt(k)
    /\ UNCHANGED <<args, polls, ended, printed, exit, eepromVars, pixelVars>>

\* lines 98-100
PrintTemperatures ==
    /\ pc = "print"
    /\ printed' = TRUE
    /\ pc' = "done"
    /\ exit' = "ok"
    /\ UNCHANGED <<args, polls, ended, eepromVars, pixelVars>>

NextCli ==
    \/ CheckArgs
    \/ ParseAddress
    \/ \E opened \in BOOLEAN : OpenBus(opened)
    \/ \E built \in BOOLEAN : NewDriver(built)
    \/ \E k \in {1, 2}, outcome \in PollOutcomes : Poll(k, outcome)
    \/ \E k \in {1, 2} : Sleep(k)
    \/ PrintTemperatures

SpecCli == InitCli /\ [][NextCli]_vars

---------------------------------------------------------------------------
(* Properties of Mlx90642Calibration::from_data and from_i2c (Spec)        *)

\* the image as laid out decodes successfully with the MLX90641 decoder
OrigGood == Mlx90641Calibration_from_data(orig).res.ok

\* the checksum-bearing image whose words are the payloads of data's words
Resynthesized ==
    Buffer(EEPROM_LENGTH,
           [i \in 1..LiveOf(data) |-> add_checksum(MaskData(WordAt(data, i))).val])

\* C1: after two distinct bits of one word of a known-good checksum-bearing
\* image were flipped, from_data returns a Checksum error and never Ok.
C1_DoubleFlipIsChecksumError ==
    (op = "from_data" /\ OrigGood /\ corruption = "two")
        => (~result.ok /\ result.kind = "Checksum")

\* C2: the fallback is entered exactly when the first run of the MLX90641
\* decoder fails with Checksum; a first run that succeeds is the result, and
\* a first run failing otherwise is returned unchanged, without synthesis
\* and without a second run.
C2_FallbackOnlyOnChecksum ==
    (op = "from_data" /\ data.len = EEPROM_LENGTH)
        => /\ trace.first = Mlx90641Calibration_from_data(data).res
           /\ trace.synthRuns \in {0, 1}
           /\ trace.synthRuns = 1
                  <=> (~trace.first.ok /\ trace.first.kind = "Checksum")
           /\ trace.first.ok
                  => (result = MapSelf(trace.first) /\ trace.primaryRuns = 1)
           /\ (~trace.first.ok /\ trace.first.kind # "Checksum")
                  => /\ result = trace.first
                     /\ trace.synthRuns = 0
                     /\ trace.primaryRuns = 1
                     /\ trace.wordsEncoded = 0

\* the first run failed on a field, not on a checksum, and that error came back
C2_Witness ==
    /\ op = "from_data"
    /\ trace.first.kind = "Configuration"
    /\ result.kind = "Configuration"
    /\ trace.synthRuns = 0

\* C3: a buffer of any length other than EEPROM_LENGTH is answered with
\* InvalidData before the decoder ran, a checksum was decoded or encoded, or
\* a word was read.
C3_LengthRejectedFirst ==
    (op = "from_data" /\ data.len # EEPROM_LENGTH)
        => /\ result = Err("InvalidData", 0)
           /\ trace.primaryRuns = 0
           /\ trace.synthRuns = 0
           /\ trace.wordsDecoded = 0
           /\ trace.wordsEncoded = 0

\* a buffer of 4 bytes was rejected
C3_Witness ==
    /\ op = "from_data"
    /\ data.len = 4
    /\ result.kind = "InvalidData"

\* C4: a known-good checksum-bearing image with the check bits of every
\* word cleared decodes to the calibration the image itself decodes to.
C4_StrippedDecodesAlike ==
    (op = "from_data" /\ OrigGood /\ stripped) => result = from_data(orig).res

\* C6: after exactly one bit of one word of a known-good checksum-bearing
\* image was flipped, from_data is Ok with the calibration of the image as
\* it was.
C6_SingleFlipCorrected ==
    (op = "from_data" /\ OrigGood /\ corruption = "one")
        => (result.ok /\ result = from_data(orig).res)

\* one payload bit of a known-good image was flipped and the call was Ok
C6_Witness ==
    /\ op = "from_data"
    /\ OrigGood
    /\ corruption = "one"
    /\ MaskData(WordAt(data, flipped)) # MaskData(WordAt(orig, flipped))
    /\ result.ok

\* C7: from_data runs the MLX90641 decoder at most twice and
\* synthesize_checksums at most once, and the result of a second run is the
\* result of the call, Ok or not.
C7_SingleRetry ==
    (op = "from_data")
        => /\ trace.primaryRuns <= 2
           /\ trace.synthRuns <= 1
           /\ trace.primaryRuns = 2
                  => /\ trace.synthRuns = 1
                     /\ result = MapSelf(trace.second)
                     /\ trace.second =
                            Mlx90641Calibration_from_data(Resynthesized).res

\* the second run failed and its error is the result
C7_Witness ==
    /\ op = "from_data"
    /\ trace.primaryRuns = 2
    /\ ~trace.second.ok
    /\ result = trace.second

\* C8: from_i2c makes one write_read of EEPROM_LENGTH bytes at EEPROM_BASE;
\* a failed one is returned as I2cWriteReadError carrying the bus error,
\* from_data not having run; after a successful one the result is that of
\* from_data on the bytes read, an error of it wrapped as a library error.
C8_OneBusOperation ==
    (op = "from_i2c")
        => /\ bus.ops = 1
           /\ bus.reg = to_be_bytes(EEPROM_BASE)
           /\ bus.count = EEPROM_LENGTH
           /\ bus.outcome # "ok"
                  => /\ result = I2cWriteReadError(bus.outcome)
                     /\ trace = NoTrace
           /\ bus.outcome = "ok"
                  => /\ trace = from_data(data).trace
                     /\ result.ok => result = from_data(data).res
                     /\ ~result.ok
                            => /\ result.kind = "LibraryError"
                               /\ result.kind # "I2cWriteReadError"
                               /\ result.cause = from_data(data).res.kind
                               /\ result.at = from_data(data).res.at

\* the write_read failed and the transport error came back
C8_Witness ==
    /\ op = "from_i2c"
    /\ bus.outcome = "Nack"
    /\ result.kind = "I2cWriteReadError"
    /\ result.cause = "Nack"

\* C9: a checksum-omitting image (the upper five bits of every word zero)
\* gets the result the MLX90641 decoder gives for the image with every word
\* replaced by add_checksum(word & 0x07FF).
C9_BarePayloadsDecoded ==
    (op = "from_data" /\ stripped)
        => result = MapSelf(Mlx90641Calibration_from_data(Resynthesized).res)

---------------------------------------------------------------------------
(* Properties of pixels_in_subpage (SpecPixels)                            *)

BothCollected == cursor = "done"

\* pixel index i (1-based here) is marked true for exactly one subpage
InExactlyOne(i) == seen["Zero"][i] # seen["One"][i]

---------------------------------------------------------------------------
(* Properties of the example (SpecCli)                                     *)

\* the grid is printed only for a known variant after both waits ended with
\* a ready poll, and never in a run that ends in an error
C10_PrintedAfterTwoReady ==
    /\ printed => /\ args.variant \in Variants
                  /\ ended[1] = "true"
                  /\ ended[2] = "true"
                  /\ exit = "ok"
    /\ exit = "err" => ~printed

\* a poll of the k-th wait happens in this step
Polled(k) == pc = WaitAt(k) /\ polls'[k] = polls[k] + 1

\* a not-ready poll leads to the delay, a poll error ends the run with an
\* error, a ready poll ends the wait; the delay leads back to a poll; an
\* ended run stays ended
C10_PollStep ==
    /\ \A k \in {1, 2} :
          Polled(k) =>
              /\ ended'[k] = "false"
                     => (pc' = SleepAt(k) /\ exit' = "running" /\ ~printed')
              /\ ended'[k] = "error"
                     => (pc' = "done" /\ exit' = "err" /\ ~printed')
              /\ ended'[k] = "true"
                     => (pc' = AfterWait(k) /\ exit' = "running" /\ ~printed')
    /\ \A k \in {1, 2} : pc = SleepAt(k) => pc' = WaitAt(k)
    /\ exit = "err" => (exit' = "err" /\ ~printed')

\* C10: for each accepted variant the grid is printed only after two
\* successive waits each ended with a poll returning true; in a wait every
\* not-ready poll is followed by a delay and another poll; a poll error ends
\* the run with an error and the grid is never printed.
C10_TwoWaitsThenPrint ==
    /\ []C10_PrintedAfterTwoReady
    /\ [][C10_PollStep]_vars

\* the grid was printed after not-ready polls in both waits
C10_Witness ==
    /\ printed
    /\ args.variant = "642"
    /\ polls[1] > 1
    /\ polls[2] > 1

=============================================================================
